---------------------------- MODULE Spec2Model ----------------------------
(***************************************************************************)
(* Decimal column type of arrow2: the precision tables, the builder        *)
(* MutableDecimalArray, the immutable DecimalArray and DecimalValuesIter.  *)
(*                                                                         *)
(* i128 values drawn as inputs are small integers; the 38-entry precision  *)
(* tables hold numbers far beyond TLC's integers, so a table entry is a    *)
(* signed decimal numeral [neg, mag] with mag the digits as written in the *)
(* source, most significant first.                                         *)
(***************************************************************************)
EXTENDS Integers, Sequences, FiniteSets, TLC

(***************************************************************************)
(* Bounds of the model.                                                    *)
(***************************************************************************)
\* pushes made to one builder
MaxPush == 3
\* stack frames available before the guard page is hit
StackLimit == 4
\* width of the machine word (usize) of the build target
WordBits == 16

(***************************************************************************)
(* Program constants.                                                      *)
(***************************************************************************)
\* mod.rs:91  const DEFAULT_DECIMAL_LENGTH: usize = 16
DEFAULT_DECIMAL_LENGTH == 16
\* mutable.rs:70  let byte_width = 16
byte_width == 16
\* mod.rs:10  [i128; 38]
TABLE_LEN == 38
\* mod.rs:10  i128: 128 bits, of which one is the sign
I128_BITS == 128

(***************************************************************************)
(* Signed decimal numerals.                                                *)
(***************************************************************************)
Pos(digits) == [neg |-> FALSE, mag |-> digits]
Neg(digits) == [neg |-> TRUE, mag |-> digits]

RECURSIVE NatDigits(_)
\* the decimal digits of a natural number, most significant first
NatDigits(n) == IF n < 10 THEN <<n>> ELSE Append(NatDigits(n \div 10), n % 10)

\* an i128 value of the model as a numeral
ToDec(v) == IF v < 0 THEN Neg(NatDigits(-v)) ELSE Pos(NatDigits(v))

\* a < b on magnitudes without leading zeros
MagLess(a, b) ==
  \/ Len(a) < Len(b)
  \/ /\ Len(a) = Len(b)
     /\ \E i \in 1..Len(a) :
          /\ a[i] < b[i]
          /\ \A j \in 1..(i - 1) : a[j] = b[j]

\* a < b on numerals (i128's `<`)
DecLess(a, b) ==
  IF a.neg /\ ~b.neg THEN TRUE
  ELSE IF ~a.neg /\ b.neg THEN FALSE
  ELSE IF a.neg THEN MagLess(b.mag, a.mag)
  ELSE MagLess(a.mag, b.mag)

RECURSIVE MagTimesSmall(_, _, _)
\* digits * k + carry, for a one-digit k; the digits are walked from the last
MagTimesSmall(digits, k, carry) ==
  IF digits = <<>>
  THEN (IF carry = 0 THEN <<>> ELSE NatDigits(carry))
  ELSE LET last == digits[Len(digits)] * k + carry
       IN  Append(MagTimesSmall(SubSeq(digits, 1, Len(digits) - 1), k, last \div 10),
                  last % 10)

RECURSIVE MagPred(_)
\* digits - 1, for digits > 0
MagPred(digits) ==
  LET n == Len(digits) IN
  IF digits[n] > 0 THEN [digits EXCEPT ![n] = digits[n] - 1]
  ELSE LET rest == MagPred(SubSeq(digits, 1, n - 1))
       IN  (IF rest = <<0>> THEN <<>> ELSE rest) \o <<9>>

(***************************************************************************)
(* mod.rs:10-89: the inclusive bounds of each precision, indexed by        *)
(* precision - 1 in the source and by precision here (TLA+ tuples start at *)
(* 1).                                                                     *)
(***************************************************************************)
\* entry 20 lost a digit
MAX_DECIMAL_OneDigitShort ==
  << Pos(<<9>>),
     Pos(<<9,9>>),
     Pos(<<9,9,9>>),
     Pos(<<9,9,9,9>>),
     Pos(<<9,9,9,9,9>>),
     Pos(<<9,9,9,9,9,9>>),
     Pos(<<9,9,9,9,9,9,9>>),
     Pos(<<9,9,9,9,9,9,9,9>>),
     Pos(<<9,9,9,9,9,9,9,9,9>>),
     Pos(<<9,9,9,9,9,9,9,9,9,9>>),
     Pos(<<9,9,9,9,9,9,9,9,9,9,9>>),
     Pos(<<9,9,9,9,9,9,9,9,9,9,9,9>>),
     Pos(<<9,9,9,9,9,9,9,9,9,9,9,9,9>>),
     Pos(<<9,9,9,9,9,9,9,9,9,9,9,9,9,9>>),
     Pos(<<9,9,9,9,9,9,9,9,9,9,9,9,9,9,9>>),
     Pos(<<9,9,9,9,9,9,9,9,9,9,9,9,9,9,9,9>>),
     Pos(<<9,9,9,9,9,9,9,9,9,9,9,9,9,9,9,9,9>>),
     Pos(<<9,9,9,9,9,9,9,9,9,9,9,9,9,9,9,9,9,9>>),
     Pos(<<9,9,9,9,9,9,9,9,9,9,9,9,9,9,9,9,9,9,9>>),
     Pos(<<9,9,9,9,9,9,9,9,9,9,9,9,9,9,9,9,9,9,9>>),
     Pos(<<9,9,9,9,9,9,9,9,9,9,9,9,9,9,9,9,9,9,9,9,9>>),
     Pos(<<9,9,9,9,9,9,9,9,9,9,9,9,9,9,9,9,9,9,9,9,9,9>>),
     Pos(<<9,9,9,9,9,9,9,9,9,9,9,9,9,9,9,9,9,9,9,9,9,9,9>>),
     Pos(<<9,9,9,9,9,9,9,9,9,9,9,9,9,9,9,9,9,9,9,9,9,9,9,9>>),
     Pos(<<9,9,9,9,9,9,9,9,9,9,9,9,9,9,9,9,9,9,9,9,9,9,9,9,9>>),
     Pos(<<9,9,9,9,9,9,9,9,9,9,9,9,9,9,9,9,9,9,9,9,9,9,9,9,9,9>>),
     Pos(<<9,9,9,9,9,9,9,9,9,9,9,9,9,9,9,9,9,9,9,9,9,9,9,9,9,9,9>>),
     Pos(<<9,9,9,9,9,9,9,9,9,9,9,9,9,9,9,9,9,9,9,9,9,9,9,9,9,9,9,9>>),
     Pos(<<9,9,9,9,9,9,9,9,9,9,9,9,9,9,9,9,9,9,9,9,9,9,9,9,9,9,9,9,9>>),
     Pos(<<9,9,9,9,9,9,9,9,9,9,9,9,9,9,9,9,9,9,9,9,9,9,9,9,9,9,9,9,9,9>>),
     Pos(<<9,9,9,9,9,9,9,9,9,9,9,9,9,9,9,9,9,9,9,9,9,9,9,9,9,9,9,9,9,9,9>>),
     Pos(<<9,9,9,9,9,9,9,9,9,9,9,9,9,9,9,9,9,9,9,9,9,9,9,9,9,9,9,9,9,9,9,9>>),
     Pos(<<9,9,9,9,9,9,9,9,9,9,9,9,9,9,9,9,9,9,9,9,9,9,9,9,9,9,9,9,9,9,9,9,9>>),
     Pos(<<9,9,9,9,9,9,9,9,9,9,9,9,9,9,9,9,9,9,9,9,9,9,9,9,9,9,9,9,9,9,9,9,9,9>>),
     Pos(<<9,9,9,9,9,9,9,9,9,9,9,9,9,9,9,9,9,9,9,9,9,9,9,9,9,9,9,9,9,9,9,9,9,9,9>>),
     Pos(<<9,9,9,9,9,9,9,9,9,9,9,9,9,9,9,9,9,9,9,9,9,9,9,9,9,9,9,9,9,9,9,9,9,9,9,9>>),
     Pos(<<9,9,9,9,9,9,9,9,9,9,9,9,9,9,9,9,9,9,9,9,9,9,9,9,9,9,9,9,9,9,9,9,9,9,9,9,9>>),
     Pos(<<1,7,0,1,4,1,1,8,3,4,6,0,4,6,9,2,3,1,7,3,1,6,8,7,3,0,3,7,1,5,8,8,4,1,0,5,7,2,7>>) >>

MAX_DECIMAL_FOR_EACH_PRECISION ==
  << Pos(<<9>>),
     Pos(<<9,9>>),
     Pos(<<9,9,9>>),
     Pos(<<9,9,9,9>>),
     Pos(<<9,9,9,9,9>>),
     Pos(<<9,9,9,9,9,9>>),
     Pos(<<9,9,9,9,9,9,9>>),
     Pos(<<9,9,9,9,9,9,9,9>>),
     Pos(<<9,9,9,9,9,9,9,9,9>>),
     Pos(<<9,9,9,9,9,9,9,9,9,9>>),
     Pos(<<9,9,9,9,9,9,9,9,9,9,9>>),
     Pos(<<9,9,9,9,9,9,9,9,9,9,9,9>>),
     Pos(<<9,9,9,9,9,9,9,9,9,9,9,9,9>>),
     Pos(<<9,9,9,9,9,9,9,9,9,9,9,9,9,9>>),
     Pos(<<9,9,9,9,9,9,9,9,9,9,9,9,9,9,9>>),
     Pos(<<9,9,9,9,9,9,9,9,9,9,9,9,9,9,9,9>>),
     Pos(<<9,9,9,9,9,9,9,9,9,9,9,9,9,9,9,9,9>>),
     Pos(<<9,9,9,9,9,9,9,9,9,9,9,9,9,9,9,9,9,9>>),
     Pos(<<9,9,9,9,9,9,9,9,9,9,9,9,9,9,9,9,9,9,9>>),
     Pos(<<9,9,9,9,9,9,9,9,9,9,9,9,9,9,9,9,9,9,9,9>>),
     Pos(<<9,9,9,9,9,9,9,9,9,9,9,9,9,9,9,9,9,9,9,9,9>>),
     Pos(<<9,9,9,9,9,9,9,9,9,9,9,9,9,9,9,9,9,9,9,9,9,9>>),
     Pos(<<9,9,9,9,9,9,9,9,9,9,9,9,9,9,9,9,9,9,9,9,9,9,9>>),
     Pos(<<9,9,9,9,9,9,9,9,9,9,9,9,9,9,9,9,9,9,9,9,9,9,9,9>>),
     Pos(<<9,9,9,9,9,9,9,9,9,9,9,9,9,9,9,9,9,9,9,9,9,9,9,9,9>>),
     Pos(<<9,9,9,9,9,9,9,9,9,9,9,9,9,9,9,9,9,9,9,9,9,9,9,9,9,9>>),
     Pos(<<9,9,9,9,9,9,9,9,9,9,9,9,9,9,9,9,9,9,9,9,9,9,9,9,9,9,9>>),
     Pos(<<9,9,9,9,9,9,9,9,9,9,9,9,9,9,9,9,9,9,9,9,9,9,9,9,9,9,9,9>>),
     Pos(<<9,9,9,9,9,9,9,9,9,9,9,9,9,9,9,9,9,9,9,9,9,9,9,9,9,9,9,9,9>>),
     Pos(<<9,9,9,9,9,9,9,9,9,9,9,9,9,9,9,9,9,9,9,9,9,9,9,9,9,9,9,9,9,9>>),
     Pos(<<9,9,9,9,9,9,9,9,9,9,9,9,9,9,9,9,9,9,9,9,9,9,9,9,9,9,9,9,9,9,9>>),
     Pos(<<9,9,9,9,9,9,9,9,9,9,9,9,9,9,9,9,9,9,9,9,9,9,9,9,9,9,9,9,9,9,9,9>>),
     Pos(<<9,9,9,9,9,9,9,9,9,9,9,9,9,9,9,9,9,9,9,9,9,9,9,9,9,9,9,9,9,9,9,9,9>>),
     Pos(<<9,9,9,9,9,9,9,9,9,9,9,9,9,9,9,9,9,9,9,9,9,9,9,9,9,9,9,9,9,9,9,9,9,9>>),
     Pos(<<9,9,9,9,9,9,9,9,9,9,9,9,9,9,9,9,9,9,9,9,9,9,9,9,9,9,9,9,9,9,9,9,9,9,9>>),
     Pos(<<9,9,9,9,9,9,9,9,9,9,9,9,9,9,9,9,9,9,9,9,9,9,9,9,9,9,9,9,9,9,9,9,9,9,9,9>>),
     Pos(<<9,9,9,9,9,9,9,9,9,9,9,9,9,9,9,9,9,9,9,9,9,9,9,9,9,9,9,9,9,9,9,9,9,9,9,9,9>>),
     Pos(<<1,7,0,1,4,1,1,8,3,4,6,0,4,6,9,2,3,1,7,3,1,6,8,7,3,0,3,7,1,5,8,8,4,1,0,5,7,2,7>>) >>

MIN_DECIMAL_FOR_EACH_PRECISION ==
  << Neg(<<9>>),
     Neg(<<9,9>>),
     Neg(<<9,9,9>>),
     Neg(<<9,9,9,9>>),
     Neg(<<9,9,9,9,9>>),
     Neg(<<9,9,9,9,9,9>>),
     Neg(<<9,9,9,9,9,9,9>>),
     Neg(<<9,9,9,9,9,9,9,9>>),
     Neg(<<9,9,9,9,9,9,9,9,9>>),
     Neg(<<9,9,9,9,9,9,9,9,9,9>>),
     Neg(<<9,9,9,9,9,9,9,9,9,9,9>>),
     Neg(<<9,9,9,9,9,9,9,9,9,9,9,9>>),
     Neg(<<9,9,9,9,9,9,9,9,9,9,9,9,9>>),
     Neg(<<9,9,9,9,9,9,9,9,9,9,9,9,9,9>>),
     Neg(<<9,9,9,9,9,9,9,9,9,9,9,9,9,9,9>>),
     Neg(<<9,9,9,9,9,9,9,9,9,9,9,9,9,9,9,9>>),
     Neg(<<9,9,9,9,9,9,9,9,9,9,9,9,9,9,9,9,9>>),
     Neg(<<9,9,9,9,9,9,9,9,9,9,9,9,9,9,9,9,9,9>>),
     Neg(<<9,9,9,9,9,9,9,9,9,9,9,9,9,9,9,9,9,9,9>>),
     Neg(<<9,9,9,9,9,9,9,9,9,9,9,9,9,9,9,9,9,9,9,9>>),
     Neg(<<9,9,9,9,9,9,9,9,9,9,9,9,9,9,9,9,9,9,9,9,9>>),
     Neg(<<9,9,9,9,9,9,9,9,9,9,9,9,9,9,9,9,9,9,9,9,9,9>>),
     Neg(<<9,9,9,9,9,9,9,9,9,9,9,9,9,9,9,9,9,9,9,9,9,9,9>>),
     Neg(<<9,9,9,9,9,9,9,9,9,9,9,9,9,9,9,9,9,9,9,9,9,9,9,9>>),
     Neg(<<9,9,9,9,9,9,9,9,9,9,9,9,9,9,9,9,9,9,9,9,9,9,9,9,9>>),
     Neg(<<9,9,9,9,9,9,9,9,9,9,9,9,9,9,9,9,9,9,9,9,9,9,9,9,9,9>>),
     Neg(<<9,9,9,9,9,9,9,9,9,9,9,9,9,9,9,9,9,9,9,9,9,9,9,9,9,9,9>>),
     Neg(<<9,9,9,9,9,9,9,9,9,9,9,9,9,9,9,9,9,9,9,9,9,9,9,9,9,9,9,9>>),
     Neg(<<9,9,9,9,9,9,9,9,9,9,9,9,9,9,9,9,9,9,9,9,9,9,9,9,9,9,9,9,9>>),
     Neg(<<9,9,9,9,9,9,9,9,9,9,9,9,9,9,9,9,9,9,9,9,9,9,9,9,9,9,9,9,9,9>>),
     Neg(<<9,9,9,9,9,9,9,9,9,9,9,9,9,9,9,9,9,9,9,9,9,9,9,9,9,9,9,9,9,9,9>>),
     Neg(<<9,9,9,9,9,9,9,9,9,9,9,9,9,9,9,9,9,9,9,9,9,9,9,9,9,9,9,9,9,9,9,9>>),
     Neg(<<9,9,9,9,9,9,9,9,9,9,9,9,9,9,9,9,9,9,9,9,9,9,9,9,9,9,9,9,9,9,9,9,9>>),
     Neg(<<9,9,9,9,9,9,9,9,9,9,9,9,9,9,9,9,9,9,9,9,9,9,9,9,9,9,9,9,9,9,9,9,9,9>>),
     Neg(<<9,9,9,9,9,9,9,9,9,9,9,9,9,9,9,9,9,9,9,9,9,9,9,9,9,9,9,9,9,9,9,9,9,9,9>>),
     Neg(<<9,9,9,9,9,9,9,9,9,9,9,9,9,9,9,9,9,9,9,9,9,9,9,9,9,9,9,9,9,9,9,9,9,9,9,9>>),
     Neg(<<9,9,9,9,9,9,9,9,9,9,9,9,9,9,9,9,9,9,9,9,9,9,9,9,9,9,9,9,9,9,9,9,9,9,9,9,9>>),
     Neg(<<1,7,0,1,4,1,1,8,3,4,6,0,4,6,9,2,3,1,7,3,1,6,8,7,3,0,3,7,1,5,8,8,4,1,0,5,7,2,8>>) >>

(***************************************************************************)
(* Byte encoding of an i128.                                               *)
(***************************************************************************)
RECURSIVE LeBytes(_, _)
\* the n low-order bytes of v in two's complement, least significant first
LeBytes(v, n) == IF n = 0 THEN <<>> ELSE <<v % 256>> \o LeBytes(v \div 256, n - 1)

\* i128::to_le_bytes
to_le_bytes(v) == LeBytes(v, 16)

RECURSIVE FromLe(_, _)
\* the signed value of bytes[1..k], bytes[k] holding the sign bit
FromLe(bytes, k) ==
  IF k = Len(bytes)
  THEN (IF bytes[k] >= 128 THEN bytes[k] - 256 ELSE bytes[k])
  ELSE FromLe(bytes, k + 1) * 256 + bytes[k]

\* i128::from_le_bytes
from_le_bytes(bytes) == FromLe(bytes, 1)

(***************************************************************************)
(* Option and the outcome of a call.                                       *)
(***************************************************************************)
None == <<>>
Some(x) == <<x>>

\* sequences over S of length at most n
SeqUpTo(S, n) == UNION {[1..k -> S] : k \in 0..n}

RECURSIVE Repeat(_, _)
Repeat(x, n) == IF n = 0 THEN <<>> ELSE <<x>> \o Repeat(x, n - 1)

(***************************************************************************)
(* The fixed-size-binary delegate: the builder MutableFixedSizeBinaryArray *)
(* and the array FixedSizeBinaryArray.  Their code is outside the files    *)
(* modelled here; they follow the interface the specification gives them   *)
(* (spec.md 3, 4.2, 4.3, 6).  values are the raw bytes, size bytes per     *)
(* slot; validity is None (no nulls) or Some(bits).                        *)
(***************************************************************************)
\* MutableFixedSizeBinaryArray::with_capacity(size, capacity)
MutableFixedSizeBinaryArray_with_capacity(size, capacity) ==
  [size |-> size, values |-> <<>>, validity |-> None]

\* number of slots held by a delegate (builder or array)
Delegate_len(d) == Len(d.values) \div d.size

\* push-optional-bytes: one null entry or one encoded value per push; a
\* byte slice of another width than the configured one is refused
MutableFixedSizeBinaryArray_try_push(m, optBytes) ==
  IF optBytes = None
  THEN [tag |-> "Ok",
        self |-> [m EXCEPT
                    !.values = m.values \o Repeat(0, m.size),
                    !.validity =
                       IF m.validity = None
                       THEN Some(Append(Repeat(TRUE, Delegate_len(m)), FALSE))
                       ELSE Some(Append(m.validity[1], FALSE))]]
  ELSE IF Len(optBytes[1]) # m.size
  THEN [tag |-> "InvalidArgument", self |-> m]
  ELSE [tag |-> "Ok",
        self |-> [m EXCEPT
                    !.values = m.values \o optBytes[1],
                    !.validity =
                       IF m.validity = None THEN None
                       ELSE Some(Append(m.validity[1], TRUE))]]

\* MutableFixedSizeBinaryArray::as_fixed_size_array: the snapshot handed to
\* the immutable array on finalization
MutableFixedSizeBinaryArray_as_fixed_size_array(m) ==
  [size |-> m.size, values |-> m.values, validity |-> m.validity]

\* FixedSizeBinaryArray::value(i): the raw bytes of slot i (0-based)
FixedSizeBinaryArray_value(d, i) == SubSeq(d.values, i * d.size + 1, (i + 1) * d.size)

\* FixedSizeBinaryArray::slice_unchecked(offset, length): the view of slots
\* offset .. offset + length - 1, the validity bitmap sliced with it
FixedSizeBinaryArray_slice_unchecked(d, offset, length) ==
  [size |-> d.size,
   values |-> SubSeq(d.values, offset * d.size + 1, (offset + length) * d.size),
   validity |-> IF d.validity = None THEN None
                ELSE Some(SubSeq(d.validity[1], offset + 1, offset + length))]

\* FixedSizeBinaryArray::with_validity(validity)
FixedSizeBinaryArray_with_validity(d, validity) == [d EXCEPT !.validity = validity]

\* whether slot i (0-based) is valid under the optional bitmap
is_valid(d, i) == d.validity = None \/ d.validity[1][i + 1]

(***************************************************************************)
(* mutable.rs: MutableDecimalArray.                                        *)
(***************************************************************************)
\* mutable.rs:69-76  MutableDecimalArray::new
new(capacity, precision, scale) ==
  [inner |-> MutableFixedSizeBinaryArray_with_capacity(byte_width, capacity),
   precision |-> precision,
   scale |-> scale]

\* the encoder storing the magnitude of v, its sign lost
from_i128_to_fixed_size_bytes_Unsigned(v, size) ==
  IF size > 16
  THEN [tag |-> "InvalidArgument", bytes |-> <<>>]
  ELSE [tag |-> "Ok", bytes |-> SubSeq(to_le_bytes(IF v < 0 THEN -v ELSE v), 16 - size + 1, 16)]

\* mutable.rs:78-87  from_i128_to_fixed_size_bytes: res[start_byte..16],
\* 0-based and half-open, is positions start_byte + 1 .. 16 here
from_i128_to_fixed_size_bytes(v, size) ==
  IF size > 16
  THEN [tag |-> "InvalidArgument", bytes |-> <<>>]
  ELSE LET res == to_le_bytes(v)
           start_byte == 16 - size
       IN  [tag |-> "Ok", bytes |-> SubSeq(res, start_byte + 1, 16)]

\* mutable.rs:95-96  self.precision - 1 on usize: with overflow checks the
\* subtraction of 1 from 0 panics, without them it wraps to usize::MAX
precision_index(precision) == (precision - 1) % (2 ^ WordBits)

\* mutable.rs:95-96  indexing a [i128; 38] panics when the index is not < 38
table_index_panics(precision) == precision = 0 \/ precision_index(precision) >= TABLE_LEN

\* mutable.rs:95-96  the range test of try_push, for a precision the tables hold
out_of_range(value, precision) ==
  \/ DecLess(MAX_DECIMAL_FOR_EACH_PRECISION[precision_index(precision) + 1], ToDec(value))
  \/ DecLess(ToDec(value), MIN_DECIMAL_FOR_EACH_PRECISION[precision_index(precision) + 1])

\* try_push with the range test left out
try_push_NoRangeCheck(self, value) ==
  IF value = None
  THEN [tag |-> "Ok",
        self |-> [self EXCEPT !.inner = MutableFixedSizeBinaryArray_try_push(self.inner, None).self]]
  ELSE [tag |-> "Ok",
        self |-> [self EXCEPT !.inner =
                    MutableFixedSizeBinaryArray_try_push(
                      self.inner, Some(to_le_bytes(value[1]))).self]]

\* mutable.rs:91-120  TryPush<Option<i128>>::try_push; the delegate's own
\* result is dropped (lines 112, 115)
try_push(self, value) ==
  IF value = None
  THEN [tag |-> "Ok",
        self |-> [self EXCEPT !.inner = MutableFixedSizeBinaryArray_try_push(self.inner, None).self]]
  ELSE IF table_index_panics(self.precision)
  THEN [tag |-> "panic", self |-> self]
  ELSE IF out_of_range(value[1], self.precision)
  THEN [tag |-> "InvalidArgument", self |-> self]
  ELSE LET value_as_bytes == from_i128_to_fixed_size_bytes(value[1], self.inner.size) IN
       IF value_as_bytes.tag # "Ok"
       THEN [tag |-> "InvalidArgument", self |-> self]
       ELSE IF self.inner.size # Len(value_as_bytes.bytes)
       THEN [tag |-> "InvalidArgument", self |-> self]
       ELSE [tag |-> "Ok",
             self |-> [self EXCEPT !.inner =
                         MutableFixedSizeBinaryArray_try_push(
                           self.inner, Some(value_as_bytes.bytes)).self]]

\* mutable.rs:57-59  MutableArray::push_null
push_null(self) ==
  [self EXCEPT !.inner = MutableFixedSizeBinaryArray_try_push(self.inner, None).self]

\* mutable.rs:25-27  MutableArray::len
MutableDecimalArray_len(self) == Delegate_len(self.inner)

(***************************************************************************)
(* mod.rs: DecimalArray.                                                   *)
(***************************************************************************)
\* mod.rs:132-137  DecimalArray::from_data
from_data(precision, scale, data) ==
  [data_type |-> <<"Decimal", precision, scale>>,
   scale |-> scale, precision |-> precision, data |-> data]

\* mutable.rs:33-47  MutableArray::as_box / as_arc (the same body)
as_box(self) ==
  from_data(self.precision, self.scale,
            MutableFixedSizeBinaryArray_as_fixed_size_array(self.inner))

\* mod.rs:180-185  DecimalArray::value
value(self, i) ==
  IF ~(i < Delegate_len(self.data))
  THEN [tag |-> "panic", val |-> 0]
  ELSE LET v == FixedSizeBinaryArray_value(self.data, i) IN
       IF Len(v) # DEFAULT_DECIMAL_LENGTH
       THEN [tag |-> "panic", val |-> 0]
       ELSE [tag |-> "Ok", val |-> from_le_bytes(v)]

\* mod.rs:156-163  DecimalArray::slice_unchecked
slice_unchecked(self, offset, length) ==
  [data_type |-> self.data_type,
   precision |-> self.precision,
   scale |-> self.scale,
   data |-> FixedSizeBinaryArray_slice_unchecked(self.data, offset, length)]

(***************************************************************************)
(* State.                                                                  *)
(***************************************************************************)
VARIABLES
  \* the builder under construction, the pushes it accepted, its last call
  \* and the array of the last finalization
  builder, pushed, call, array,
  \* the last call of the encoder
  enc,
  \* the running powers 10^tp and 2^tb the tables are compared with
  tp, pow10, tb, pow2,
  \* a DecimalArray, the call stack of the call made on it, how the call
  \* ended, what it returned, and the build profile (debug: overflow checks
  \* and one frame per call; release: wrapping arithmetic and the tail call
  \* of len compiled to a jump)
  arr, frames, outcome, ret, profile

builder_vars == <<builder, pushed, call, array>>
enc_vars == <<enc>>
table_vars == <<tp, pow10, tb, pow2>>
array_vars == <<arr, frames, outcome, ret, profile>>
vars == <<builder_vars, enc_vars, table_vars, array_vars>>
\* what each component's steps leave alone
not_builder == <<enc_vars, table_vars, array_vars>>
not_enc == <<builder_vars, table_vars, array_vars>>
not_table == <<builder_vars, enc_vars, array_vars>>
not_array == <<builder_vars, enc_vars, table_vars>>

\* inputs
Precisions == {0, 1, 2, 38, 39}
Scales == {2}
Values == {-100, -10, -9, 0, 9, 10, 100}

\* the values of the components a specification does not run
idle_builder == new(0, 1, 0)
idle_call == [op |-> "new", arg |-> None, result |-> "Ok"]
idle_arr == from_data(1, 0, MutableFixedSizeBinaryArray_as_fixed_size_array(idle_builder.inner))

(***************************************************************************)
(* The builder: new, then try_push / push_null / as_box / as_arc in any    *)
(* order.  A panic ends the program.                                       *)
(***************************************************************************)
BuilderInit ==
  /\ \E precision \in Precisions, scale \in Scales :
       builder = new(MaxPush, precision, scale)
  /\ pushed = <<>>
  /\ call = [op |-> "new", arg |-> None, result |-> "Ok"]
  /\ array = None
  /\ enc = None
  /\ tp = 1 /\ pow10 = <<1, 0>> /\ tb = 0 /\ pow2 = <<1>>
  /\ arr = idle_arr /\ frames = <<>> /\ outcome = "idle" /\ ret = None
  /\ profile = "release"

BuilderRunning == call.result # "panic"

\* mutable.rs:91-120
TryPush ==
  /\ BuilderRunning
  /\ Len(pushed) < MaxPush
  /\ \E item \in {None} \cup {Some(v) : v \in Values} :
       LET r == try_push(builder, item) IN
         /\ builder' = r.self
         /\ pushed' = IF r.tag = "Ok" THEN Append(pushed, item) ELSE pushed
         /\ call' = [op |-> "try_push", arg |-> item, result |-> r.tag]
  /\ UNCHANGED <<array, not_builder>>

\* mutable.rs:57-59
PushNull ==
  /\ BuilderRunning
  /\ Len(pushed) < MaxPush
  /\ builder' = push_null(builder)
  /\ pushed' = Append(pushed, None)
  /\ call' = [op |-> "push_null", arg |-> None, result |-> "Ok"]
  /\ UNCHANGED <<array, not_builder>>

\* mutable.rs:33-39
AsBox ==
  /\ BuilderRunning
  /\ array' = Some(as_box(builder))
  /\ call' = [op |-> "as_box", arg |-> None, result |-> "Ok"]
  /\ UNCHANGED <<builder, pushed, not_builder>>

\* mutable.rs:41-47
AsArc ==
  /\ BuilderRunning
  /\ array' = Some(as_box(builder))
  /\ call' = [op |-> "as_arc", arg |-> None, result |-> "Ok"]
  /\ UNCHANGED <<builder, pushed, not_builder>>

BuilderNext == TryPush \/ PushNull \/ AsBox \/ AsArc

SpecBuilder == BuilderInit /\ [][BuilderNext]_vars

(***************************************************************************)
(* Claims about the builder.                                               *)
(***************************************************************************)
\* C1: after finalization the array mirrors the pushes the builder accepted
\* (precision 1..38): as many slots as pushes, slot i valid iff the i-th push
\* was Some(v), and then value(i) = v.
C1_ArrayMirrorsPushes ==
  (call.op \in {"as_box", "as_arc"} /\ builder.precision \in 1..38) =>
    /\ array # None
    /\ Delegate_len(array[1].data) = Len(pushed)
    /\ array[1].precision = builder.precision
    /\ \A i \in 0..(Len(pushed) - 1) :
         /\ is_valid(array[1].data, i) <=> (pushed[i + 1] # None)
         /\ pushed[i + 1] # None => value(array[1], i) = [tag |-> "Ok", val |-> pushed[i + 1][1]]

\* a finalized array holding a negative value, a null and a positive value
C1_Witness ==
  /\ call.op \in {"as_box", "as_arc"}
  /\ builder.precision \in 1..38
  /\ Len(pushed) = 3
  /\ \E i, j, k \in 1..3 :
       /\ pushed[i] = None
       /\ pushed[j] # None /\ pushed[j][1] < 0
       /\ pushed[k] # None /\ pushed[k][1] > 0

\* C2: for a precision of 1..38, try_push(Some(v)) with v above MAX[p-1] or
\* below MIN[p-1] returns InvalidArgument and leaves the builder as it was.
C2_RangeRejection ==
  [][(/\ call'.op = "try_push"
      /\ call'.arg # None
      /\ builder.precision \in 1..38
      /\ out_of_range(call'.arg[1], builder.precision))
     => (call'.result = "InvalidArgument" /\ builder' = builder)]_vars

\* an out-of-range push refused by a builder that already holds a value and a null
C2_Witness ==
  /\ call.op = "try_push"
  /\ call.result = "InvalidArgument"
  /\ builder.precision \in 1..38
  /\ call.arg # None /\ out_of_range(call.arg[1], builder.precision)
  /\ MutableDecimalArray_len(builder) = 2
  /\ builder.inner.validity # None

\* C10: whatever precision new was given, try_push(Some(v)) returns Ok or an
\* InvalidArgument error with the builder unchanged, and never panics.
C10_TryPushNeverAborts ==
  [][(call'.op = "try_push" /\ call'.arg # None)
     => \/ call'.result = "Ok" /\ MutableDecimalArray_len(builder') = MutableDecimalArray_len(builder) + 1
        \/ call'.result = "InvalidArgument" /\ builder' = builder]_vars

(***************************************************************************)
(* The encoder alone: from_i128_to_fixed_size_bytes on any value and any   *)
(* slot size, the sizes past 16 included.                                  *)
(***************************************************************************)
EncValues == {-123456789, -1000, -256, -1, 0, 1, 255, 256, 1000, 65535, 123456789}
EncSizes == 0..18

EncInit ==
  /\ enc = None
  /\ builder = idle_builder /\ pushed = <<>> /\ call = idle_call /\ array = None
  /\ tp = 1 /\ pow10 = <<1, 0>> /\ tb = 0 /\ pow2 = <<1>>
  /\ arr = idle_arr /\ frames = <<>> /\ outcome = "idle" /\ ret = None
  /\ profile = "release"

\* mutable.rs:78-87
Encode ==
  /\ \E v \in EncValues, size \in EncSizes :
       enc' = Some([v |-> v, size |-> size, res |-> from_i128_to_fixed_size_bytes(v, size)])
  /\ UNCHANGED not_enc

EncNext == Encode

SpecEnc == EncInit /\ [][EncNext]_vars

\* C9: for a size of 0..16 the encoder returns the `size` low-order bytes of
\* the 16-byte little-endian representation of v (all 16 for size 16, which
\* from_le_bytes decodes back to v); for a size above 16 it returns an
\* InvalidArgument error.
C9_EncoderLowOrderBytes ==
  enc # None =>
    LET e == enc[1] IN
      IF e.size > 16
      THEN e.res.tag = "InvalidArgument"
      ELSE /\ e.res.tag = "Ok"
           /\ e.res.bytes = SubSeq(to_le_bytes(e.v), 1, e.size)
           /\ e.size = 16 => from_le_bytes(e.res.bytes) = e.v

(***************************************************************************)
(* The tables against the powers they are documented to hold: 10^tp is     *)
(* built digit by digit next to 2^tb.                                      *)
(***************************************************************************)
TableInit ==
  /\ tp = 1 /\ pow10 = <<1, 0>> /\ tb = 0 /\ pow2 = <<1>>
  /\ builder = idle_builder /\ pushed = <<>> /\ call = idle_call /\ array = None
  /\ enc = None
  /\ arr = idle_arr /\ frames = <<>> /\ outcome = "idle" /\ ret = None
  /\ profile = "release"

\* the next precision: 10^(tp+1) = 10^tp * 10
NextPrecision ==
  /\ tp < TABLE_LEN
  /\ tp' = tp + 1
  /\ pow10' = Append(pow10, 0)
  /\ UNCHANGED <<tb, pow2, not_table>>

\* the next bit: 2^(tb+1) = 2^tb * 2
NextBit ==
  /\ tb < I128_BITS - 1
  /\ tb' = tb + 1
  /\ pow2' = MagTimesSmall(pow2, 2, 0)
  /\ UNCHANGED <<tp, pow10, not_table>>

TableNext == NextPrecision \/ NextBit

SpecTable == TableInit /\ [][TableNext]_vars

\* C3: for a precision p of 1..37, MAX[p-1] = 10^p - 1 and MIN[p-1] =
\* -(10^p - 1); for p = 38 the entries are 2^127 - 1 and -2^127.
C3_TablesArePowersOfTen ==
  /\ Len(MAX_DECIMAL_FOR_EACH_PRECISION) = TABLE_LEN
  /\ Len(MIN_DECIMAL_FOR_EACH_PRECISION) = TABLE_LEN
  /\ tp \in 1..(TABLE_LEN - 1) =>
       /\ MAX_DECIMAL_FOR_EACH_PRECISION[tp] = Pos(MagPred(pow10))
       /\ MIN_DECIMAL_FOR_EACH_PRECISION[tp] = Neg(MagPred(pow10))
  /\ tb = I128_BITS - 1 =>
       /\ MAX_DECIMAL_FOR_EACH_PRECISION[TABLE_LEN] = Pos(MagPred(pow2))
       /\ MIN_DECIMAL_FOR_EACH_PRECISION[TABLE_LEN] = Neg(pow2)

\* both powers reached: 10^37 and 2^127
C3_Witness == tp = TABLE_LEN - 1 /\ tb = I128_BITS - 1 /\ Len(pow2) = 39 /\ Len(pow10) = 38

(***************************************************************************)
(* iterator.rs: DecimalValuesIter, the half-open range [index, end) of the *)
(* positions still to yield.  Its fields are private; DecimalValuesIter::  *)
(* new, reached through values_iter and iter, is the only way to one.      *)
(***************************************************************************)
\* iterator.rs:29-36  Iterator::next: the new state and the position read
next(self) ==
  IF self.index = self.end
  THEN [self |-> self, pos |-> None]
  ELSE LET old == self.index
       IN  [self |-> [self EXCEPT !.index = self.index + 1], pos |-> Some(old)]

\* iterator.rs:46-53  DoubleEndedIterator::next_back
next_back(self) ==
  IF self.index = self.end
  THEN [self |-> self, pos |-> None]
  ELSE [self |-> [self EXCEPT !.end = self.end - 1], pos |-> Some(self.end - 1)]

\* iterator.rs:39-41  Iterator::size_hint; end - index on usize
size_hint(self) ==
  [lo |-> (self.end - self.index) % (2 ^ WordBits),
   hi |-> Some((self.end - self.index) % (2 ^ WordBits)),
   underflow |-> self.end < self.index]

(***************************************************************************)
(* The immutable array: a DecimalArray built by the builder, and the calls *)
(* len, slice, slice_unchecked, with_validity, value, values_iter and iter  *)
(* made on it.  A                                                          *)
(* call that calls another pushes a frame; frames[1] is the call the       *)
(* program made and stays there once the call has ended.  A panic or a     *)
(* stack overflow ends the program.                                        *)
(***************************************************************************)
\* slots of the arrays calls are made on
MaxArrLen == 3
ArrItems == {None, Some(-7), Some(5)}

RECURSIVE PushAll(_, _)
\* the builder after try_push of each item in turn
PushAll(b, items) ==
  IF items = <<>> THEN b
  ELSE PushAll(try_push(b, Head(items)).self, Tail(items))

\* the arrays of at most n slots a builder of precision 2 finalizes to
DecimalArrays(n) == {as_box(PushAll(new(n, 2, 1), items)) : items \in SeqUpTo(ArrItems, n)}

\* usize arguments: small ones and the top of the word
Words == 0..(MaxArrLen + 1) \cup {2 ^ WordBits - 1}

ArrayInit ==
  /\ arr \in DecimalArrays(MaxArrLen)
  /\ profile \in {"debug", "release"}
  /\ frames = <<>>
  /\ outcome = "idle"
  /\ ret = None
  /\ builder = idle_builder /\ pushed = <<>> /\ call = idle_call /\ array = None
  /\ enc = None
  /\ tp = 1 /\ pow10 = <<1, 0>> /\ tb = 0 /\ pow2 = <<1>>

\* the program may make a call
Callable == outcome \in {"idle", "returned"}

\* mod.rs:203  a call of Array::len on the array
CallLen ==
  /\ Callable
  /\ frames' = <<[fn |-> "len"]>>
  /\ outcome' = "running"
  /\ ret' = None
  /\ UNCHANGED <<arr, profile, not_array>>

\* mod.rs:204  the body of len is the call self.len(); DecimalArray has no
\* inherent len, so the call is Array::len again
LenCallsLen ==
  /\ outcome = "running"
  /\ profile = "debug"
  /\ frames[Len(frames)].fn = "len"
  /\ Len(frames) < StackLimit
  /\ frames' = Append(frames, [fn |-> "len"])
  /\ UNCHANGED <<arr, outcome, ret, profile, not_array>>

\* mod.rs:204  in a release build the call in tail position is a jump to
\* the start of len: the call spins in its one frame and never returns
LenSpins ==
  /\ outcome = "running"
  /\ profile = "release"
  /\ frames[Len(frames)].fn = "len"
  /\ UNCHANGED vars

\* mod.rs:144-146  slice evaluates offset + length, then calls self.len()
\* for the right-hand side of the assertion; the sum panics on overflow
\* when the build checks overflow and wraps when it does not
CallSlice ==
  /\ Callable
  /\ \E offset \in Words, length \in Words :
       IF profile = "debug" /\ offset + length >= 2 ^ WordBits
       THEN /\ frames' = <<[fn |-> "slice", offset |-> offset, length |-> length,
                            sum |-> 0]>>
            /\ outcome' = "panic"
       ELSE /\ frames' = <<[fn |-> "slice", offset |-> offset, length |-> length,
                            sum |-> (offset + length) % (2 ^ WordBits)]>>
            /\ outcome' = "running"
  /\ ret' = None
  /\ UNCHANGED <<arr, profile, not_array>>

\* mod.rs:146  self.len() in slice
SliceCallsLen ==
  /\ outcome = "running"
  /\ Len(frames) = 1
  /\ frames[1].fn = "slice"
  /\ frames' = Append(frames, [fn |-> "len"])
  /\ UNCHANGED <<arr, outcome, ret, profile, not_array>>

\* mod.rs:168-175  with_validity: None is stored at once; for Some(bitmap)
\* the guard compares bitmap.len() with self.len()
CallWithValidity ==
  /\ Callable
  /\ \E validity \in {None} \cup {Some(Repeat(b, k)) : b \in BOOLEAN, k \in 0..MaxArrLen} :
       /\ frames' = <<[fn |-> "with_validity", validity |-> validity]>>
       /\ IF validity = None
          THEN /\ outcome' = "returned"
               /\ ret' = Some([arr EXCEPT !.data = FixedSizeBinaryArray_with_validity(arr.data, None)])
          ELSE /\ outcome' = "running"
               /\ ret' = None
  /\ UNCHANGED <<arr, profile, not_array>>

\* mod.rs:169  self.len() in with_validity
WithValidityCallsLen ==
  /\ outcome = "running"
  /\ Len(frames) = 1
  /\ frames[1].fn = "with_validity"
  /\ frames' = Append(frames, [fn |-> "len"])
  /\ UNCHANGED <<arr, outcome, ret, profile, not_array>>

\* iterator.rs:75-77  values_iter, and iterator.rs:67-72  iter, whose first
\* argument to zip_validity is the same constructor call
CallValuesIter ==
  /\ Callable
  /\ \E fn \in {"values_iter", "iter"} : frames' = <<[fn |-> fn]>>
  /\ outcome' = "running"
  /\ ret' = None
  /\ UNCHANGED <<arr, profile, not_array>>

\* iterator.rs:69,76  DecimalValuesIter::new(self)
IterCallsNew ==
  /\ outcome = "running"
  /\ Len(frames) = 1
  /\ frames[1].fn \in {"values_iter", "iter"}
  /\ frames' = Append(frames, [fn |-> "new"])
  /\ UNCHANGED <<arr, outcome, ret, profile, not_array>>

\* iterator.rs:16-22  DecimalValuesIter::new evaluates array.len() for the
\* field end before the struct is built; the only len of DecimalArray is
\* Array::len
NewCallsLen ==
  /\ outcome = "running"
  /\ frames[Len(frames)].fn = "new"
  /\ frames' = Append(frames, [fn |-> "len"])
  /\ UNCHANGED <<arr, outcome, ret, profile, not_array>>

\* mod.rs:204  the recursion has no base case: in a debug build the stack
\* runs out
StackOverflow ==
  /\ outcome = "running"
  /\ profile = "debug"
  /\ frames[Len(frames)].fn = "len"
  /\ Len(frames) >= StackLimit
  /\ outcome' = "stack_overflow"
  /\ UNCHANGED <<arr, frames, ret, profile, not_array>>

\* mod.rs:156-163  slice_unchecked called directly, by a caller that keeps
\* its contract offset + length <= len
CallSliceUnchecked ==
  /\ Callable
  /\ \E offset \in 0..Delegate_len(arr.data) :
       \E length \in 0..(Delegate_len(arr.data) - offset) :
         /\ frames' = <<[fn |-> "slice_unchecked", offset |-> offset, length |-> length]>>
         /\ ret' = Some(slice_unchecked(arr, offset, length))
  /\ outcome' = "returned"
  /\ UNCHANGED <<arr, profile, not_array>>

\* mod.rs:180-185  value(i)
CallValue ==
  /\ Callable
  /\ \E i \in 0..MaxArrLen :
       LET r == value(arr, i) IN
         /\ frames' = <<[fn |-> "value", i |-> i]>>
         /\ outcome' = IF r.tag = "Ok" THEN "returned" ELSE "panic"
         /\ ret' = IF r.tag = "Ok" THEN Some(r.val) ELSE None
  /\ UNCHANGED <<arr, profile, not_array>>

\* the program goes on with the array a call returned (a slice of a slice)
UseResult ==
  /\ outcome = "returned"
  /\ frames[1].fn \in {"slice", "slice_unchecked", "with_validity"}
  /\ arr' = ret[1]
  /\ frames' = <<>>
  /\ outcome' = "idle"
  /\ ret' = None
  /\ UNCHANGED <<profile, not_array>>

ArrayNext ==
  \/ CallLen \/ LenCallsLen \/ LenSpins \/ StackOverflow
  \/ CallSlice \/ SliceCallsLen
  \/ CallWithValidity \/ WithValidityCallsLen
  \/ CallValuesIter \/ IterCallsNew \/ NewCallsLen
  \/ CallSliceUnchecked \/ CallValue \/ UseResult

SpecArray == ArrayInit /\ [][ArrayNext]_vars

\* the call the program made, once it has ended
Ended(fn) == frames # <<>> /\ frames[1].fn = fn /\ outcome # "running"

\* C4: a call of len() terminates and returns the length of the delegate,
\* and so do the calls slice and with_validity make to it.
C4_LenTerminates ==
  /\ outcome # "stack_overflow"
  /\ Ended("len") => (outcome = "returned" /\ ret = Some(Delegate_len(arr.data)))

\* C5: slice(o, l) with o + l <= len returns an array of l slots with
\* value(i) = a.value(o + i), a's precision and scale, and a untouched.
C5_SliceIsView ==
  (Ended("slice") /\ frames[1].offset + frames[1].length <= Delegate_len(arr.data)) =>
    /\ outcome = "returned"
    /\ ret # None
    /\ Delegate_len(ret[1].data) = frames[1].length
    /\ ret[1].precision = arr.precision /\ ret[1].scale = arr.scale
    /\ \A i \in 0..(frames[1].length - 1) :
         value(ret[1], i) = value(arr, frames[1].offset + i)

\* C6: slice(offset, length) ends the program iff offset + length > len,
\* for any two words, and returns otherwise.
C6_SlicePanicsIffOutOfBounds ==
  Ended("slice") =>
    /\ outcome \in {"panic", "stack_overflow", "returned"}
    /\ (outcome # "returned") <=> (frames[1].offset + frames[1].length > Delegate_len(arr.data))

\* the iterator after the calls in turn, and what each call returned
RECURSIVE Drive(_, _)
Drive(self, calls) ==
  IF calls = <<>> THEN [self |-> self, got |-> <<>>]
  ELSE LET r == IF Head(calls) = "next" THEN next(self) ELSE next_back(self)
           rest == Drive(r.self, Tail(calls))
       IN  [self |-> rest.self, got |-> <<r.pos>> \o rest.got]

\* the call of values_iter or iter the program made, once it has ended
EndedIter == frames # <<>> /\ frames[1].fn \in {"values_iter", "iter"} /\ outcome # "running"

\* C7: values_iter / iter return an iterator over the n slots, and under any
\* interleaving of next and next_back it keeps index <= end, reads only
\* positions of [0, n), yields each exactly once (next ascending from 0,
\* next_back descending from n-1), and returns None from both ends once
\* index = end.
C7_IteratorDiscipline ==
  EndedIter =>
    /\ outcome = "returned"
    /\ ret # None
    /\ LET n == Delegate_len(arr.data) IN
       \A calls \in [1..(n + 2) -> {"next", "next_back"}] :
         LET d == Drive(ret[1], calls)
             fronts == SelectSeq([k \in 1..n |-> <<calls[k], d.got[k]>>], LAMBDA p : p[1] = "next")
             backs == SelectSeq([k \in 1..n |-> <<calls[k], d.got[k]>>], LAMBDA p : p[1] = "next_back")
         IN  /\ \A k \in 0..(n + 2) :
                  LET s == Drive(ret[1], SubSeq(calls, 1, k)).self
                  IN  0 <= s.index /\ s.index <= s.end /\ s.end <= n
             /\ \A k \in 1..n : d.got[k] # None /\ d.got[k][1] \in 0..(n - 1)
             /\ {d.got[k][1] : k \in 1..n} = 0..(n - 1)
             /\ \A k \in 1..Len(fronts) : fronts[k][2] = Some(k - 1)
             /\ \A k \in 1..Len(backs) : backs[k][2] = Some(n - k)
             /\ d.got[n + 1] = None /\ d.got[n + 2] = None

\* C8: in every state of the iterator values_iter / iter return, reached by
\* any calls of next and next_back, size_hint is (k, Some(k)) with k = end -
\* index = n minus the items yielded so far, and end - index does not
\* underflow.
C8_SizeHintExact ==
  EndedIter =>
    /\ outcome = "returned"
    /\ ret # None
    /\ LET n == Delegate_len(arr.data) IN
       \A calls \in SeqUpTo({"next", "next_back"}, n + 1) :
         LET d == Drive(ret[1], calls)
             h == size_hint(d.self)
             some == Cardinality({k \in 1..Len(calls) : d.got[k] # None})
         IN  /\ ~h.underflow
             /\ h.lo = d.self.end - d.self.index
             /\ h.hi = Some(h.lo)
             /\ h.lo = n - some

=============================================================================
